---- MODULE Spec2Model ----
(***************************************************************************)
(* Model of useImuData() in src/src/App.jsx: the connection status, the    *)
(* two sliding-window buffers (accel, gyro) and the six handlers the hook  *)
(* registers on the MQTT client, plus the effect cleanup.                  *)
(*                                                                         *)
(* JavaScript values are modelled as records: a number is the exact        *)
(* rational n/d in lowest terms, null and undefined are two distinct       *)
(* values.  A payload is the JSON text the client delivers, reduced to     *)
(* what JSON.parse makes of it.  The byte/text decoding of the payload,    *)
(* the trim before parsing and the console output change no state and are  *)
(* left out; the subscribe call of onConnect is kept as a flag.            *)
(***************************************************************************)
EXTENDS Integers, Sequences, FiniteSets, TLC

VARIABLES
    status,      \* useState("connecting")
    accel,       \* useState([]) : accel samples {t, ax, ay, az}
    gyro,        \* useState([]) : gyro samples {t, gx, gy, gz}
    listeners,   \* events that have a handler registered on the client
    ended,       \* the cleanup ran: client.end(true) was called
    subscribed,  \* client.subscribe(TOPIC, ...) was called
    last,        \* the event the client delivered last and how its handler ended
    accelLog,    \* history: every sample handed to setAccel, in call order
    nMsg,        \* history: number of message events delivered
    evLog,       \* history (observed runs): lifecycle events delivered
    statusLog    \* history (observed runs): every value status has held

vars == <<status, accel, gyro, listeners, ended, subscribed, last,
          accelLog, nMsg, evLog, statusLog>>

\* ---------------------------------------------------------------- bounds

\* App.jsx sets MAX_POINTS = 300; the model keeps the cap as a parameter and
\* checks with a small window so that TLC fills it and evicts from it.
MAX_POINTS == 2

\* message events per run: enough to fill a window and evict from it
MaxMsgs == MAX_POINTS + 1

\* lifecycle events per observed run
MaxEvents == 3

\* ---------------------------------------------------------------- values

Null == [k |-> "null"]
Undefined == [k |-> "undefined"]

RECURSIVE Gcd(_, _)
Gcd(a, b) == IF b = 0 THEN a ELSE Gcd(b, a % b)

Abs(x) == IF x < 0 THEN -x ELSE x

\* the number n/d (d > 0) in lowest terms
Num(n, d) ==
    LET g == Gcd(Abs(n), d)
    IN  [k |-> "num", n |-> n \div g, d |-> d \div g]

\* x / c for a number x and a positive integer literal c
Div(x, c) == Num(x.n, x.d * c)

Nullish(v) == v = Null \/ v = Undefined

Statuses == {"connecting", "connected", "reconnecting", "offline", "closed", "error"}
LifecycleEvents == {"connect", "reconnect", "close", "offline", "error"}
Events == LifecycleEvents \cup {"message"}

\* what toLocaleTimeString() may return when a message is handled
Times == {"10:00:00", "10:00:01"}

\* ---------------------------------------------------------------- payloads

\* A payload is the text of one MQTT message.  JSON.parse either throws on it
\* (json = "malformed") or returns a value of the JSON type named; for an
\* object, obj maps the property names the text holds to their values.
Obj(f) == [json |-> "object", obj |-> f]

BadJson   == [json |-> "malformed"]          \* {bad json
JsonNull  == [json |-> "null"]               \* null
JsonNum   == [json |-> "number"]             \* 5
JsonStr   == [json |-> "string"]             \* "abc"
JsonArr   == [json |-> "array"]              \* [1,2]
JsonBool  == [json |-> "boolean"]            \* true

RawBoth      == Obj([ax_mg |-> Num(981, 1), gy_cds |-> Num(50, 1)])
ScaledWins   == Obj([ax |-> Num(0, 1), ax_mg |-> Num(981, 1)])
NullFallsBack == Obj([ay |-> Null, ay_mg |-> Num(-500, 1), az |-> Num(1, 2)])
GyroOnly     == Obj([gx |-> Num(3, 2), gz_cds |-> Num(0, 1)])
NoFields     == Obj([temp |-> Num(21, 1)])
OnlyNulls    == Obj([ax |-> Null, gx_cds |-> Null])

NonObjects == {JsonNull, JsonNum, JsonStr, JsonArr, JsonBool}
Objects == {RawBoth, ScaledWins, NullFallsBack, GyroOnly, NoFields, OnlyNulls}
Payloads == {BadJson} \cup NonObjects \cup Objects

NoPayload == [json |-> "none"]

\* JSON.parse(raw.trim()) throws
ParseThrows(p) == p.json = "malformed"

\* msg.<k> throws a TypeError: msg is null
ReadThrows(msg) == msg.json = "null"

\* msg.<k> for a parsed msg that is not null: a property the object holds, or
\* undefined (a number, string, array or boolean has none of the names read)
Get(msg, k) ==
    IF msg.json = "object" /\ k \in DOMAIN msg.obj THEN msg.obj[k] ELSE Undefined

\* ---------------------------------------------------------------- decoding

\* msg.ax || (...): a scaled value of 0 is taken for a missing one
ResolveFalsy(msg, scaled, raw, scale) ==
    IF ~Nullish(Get(msg, scaled)) /\ Get(msg, scaled).n # 0 THEN Get(msg, scaled)
    ELSE IF ~Nullish(Get(msg, raw)) THEN Div(Get(msg, raw), scale)
    ELSE Null

\* the raw field is looked at first
ResolveRawFirst(msg, scaled, raw, scale) ==
    IF ~Nullish(Get(msg, raw)) THEN Div(Get(msg, raw), scale)
    ELSE IF ~Nullish(Get(msg, scaled)) THEN Get(msg, scaled)
    ELSE Null

\* msg.ax ?? (msg.ax_mg != null ? msg.ax_mg / 1000 : null)
Resolve(msg, scaled, raw, scale) ==
    IF ~Nullish(Get(msg, scaled)) THEN Get(msg, scaled)
    ELSE IF ~Nullish(Get(msg, raw)) THEN Div(Get(msg, raw), scale)
    ELSE Null

AccelSample(msg, t) ==
    [t  |-> t,
     ax |-> Resolve(msg, "ax", "ax_mg", 1000),
     ay |-> Resolve(msg, "ay", "ay_mg", 1000),
     az |-> Resolve(msg, "az", "az_mg", 1000)]

GyroSample(msg, t) ==
    [t  |-> t,
     gx |-> Resolve(msg, "gx", "gx_cds", 100),
     gy |-> Resolve(msg, "gy", "gy_cds", 100),
     gz |-> Resolve(msg, "gz", "gz_cds", 100)]

\* .every in place of .some
EveryNonNull(a, b, c) == ~Nullish(a) /\ ~Nullish(b) /\ ~Nullish(c)

\* [a, b, c].some((v) => v != null)
SomeNonNull(a, b, c) == ~Nullish(a) \/ ~Nullish(b) \/ ~Nullish(c)

\* the shift is left out
PushNoShift(prev, s) == Append(prev, s)

\* next.pop() in place of next.shift(): the newest sample is dropped
PushDropNewest(prev, s) ==
    LET next == Append(prev, s)
    IN  IF Len(next) > MAX_POINTS THEN SubSeq(next, 1, Len(next) - 1) ELSE next

\* next = [...prev, s]; if (next.length > MAX_POINTS) next.shift(); return next
Push(prev, s) ==
    LET next == Append(prev, s)
    IN  IF Len(next) > MAX_POINTS THEN Tail(next) ELSE next

\* ---------------------------------------------------------------- state

Handled(e, p, threw) == [ev |-> e, payload |-> p, threw |-> threw]

\* the state once the effect has run: the client is created and the six
\* handlers are registered; nothing has been delivered yet
Init ==
    /\ status = "connecting"
    /\ accel = << >>
    /\ gyro = << >>
    /\ listeners = Events
    /\ ended = FALSE
    /\ subscribed = FALSE
    /\ last = Handled("mount", NoPayload, FALSE)
    /\ accelLog = << >>
    /\ nMsg = 0
    /\ evLog = << >>
    /\ statusLog = <<"connecting">>

\* the client calls the handlers registered for e; client.end() removes none
Delivers(e) == e \in listeners

\* ---------------------------------------------------------------- handlers

data == <<accel, gyro, accelLog, nMsg>>

onConnect ==
    /\ status' = "connected"
    /\ subscribed' = TRUE
    /\ last' = Handled("connect", NoPayload, FALSE)
    /\ UNCHANGED <<data, listeners, ended>>

\* the reconnect handler reports the connection as up
onReconnectAsConnected ==
    /\ status' = "connected"
    /\ last' = Handled("reconnect", NoPayload, FALSE)
    /\ UNCHANGED <<data, listeners, ended, subscribed>>

onReconnect ==
    /\ status' = "reconnecting"
    /\ last' = Handled("reconnect", NoPayload, FALSE)
    /\ UNCHANGED <<data, listeners, ended, subscribed>>

onClose ==
    /\ status' = "closed"
    /\ last' = Handled("close", NoPayload, FALSE)
    /\ UNCHANGED <<data, listeners, ended, subscribed>>

\* the offline handler also empties the charts
onOfflineClears ==
    /\ status' = "offline"
    /\ accel' = << >>
    /\ gyro' = << >>
    /\ last' = Handled("offline", NoPayload, FALSE)
    /\ UNCHANGED <<accelLog, nMsg, listeners, ended, subscribed>>

onOffline ==
    /\ status' = "offline"
    /\ last' = Handled("offline", NoPayload, FALSE)
    /\ UNCHANGED <<data, listeners, ended, subscribed>>

\* the error handler logs and leaves status alone
onErrorLogsOnly ==
    /\ last' = Handled("error", NoPayload, FALSE)
    /\ UNCHANGED <<status, data, listeners, ended, subscribed>>

onError ==
    /\ status' = "error"
    /\ last' = Handled("error", NoPayload, FALSE)
    /\ UNCHANGED <<data, listeners, ended, subscribed>>

\* the message handler on payload p, the clock reading t when it asks
onMessage(p, t) ==
    /\ nMsg' = nMsg + 1
    /\ UNCHANGED <<status, listeners, ended, subscribed>>
    /\ IF ParseThrows(p)
       THEN \* catch: warn and return
            /\ last' = Handled("message", p, FALSE)
            /\ UNCHANGED <<accel, gyro, accelLog>>
       ELSE IF ReadThrows(p)
       THEN \* msg.ax on null: the TypeError leaves the handler
            /\ last' = Handled("message", p, TRUE)
            /\ UNCHANGED <<accel, gyro, accelLog>>
       ELSE LET a == AccelSample(p, t)
                g == GyroSample(p, t)
            IN  /\ last' = Handled("message", p, FALSE)
                /\ IF SomeNonNull(a.ax, a.ay, a.az)
                   THEN /\ accel' = Push(accel, a)
                        /\ accelLog' = Append(accelLog, a)
                   ELSE UNCHANGED <<accel, accelLog>>
                /\ IF SomeNonNull(g.gx, g.gy, g.gz)
                   THEN gyro' = Push(gyro, g)
                   ELSE UNCHANGED gyro

\* return () => { try { client.end(true); } catch {} }
cleanup ==
    /\ ~ended
    /\ ended' = TRUE
    /\ last' = Handled("unmount", NoPayload, FALSE)
    /\ UNCHANGED <<status, data, listeners, subscribed>>

\* ---------------------------------------------------------------- the hook

logs == <<evLog, statusLog>>

Connect   == Delivers("connect")   /\ onConnect   /\ UNCHANGED logs
Reconnect == Delivers("reconnect") /\ onReconnect /\ UNCHANGED logs
Close     == Delivers("close")     /\ onClose     /\ UNCHANGED logs
Offline   == Delivers("offline")   /\ onOffline   /\ UNCHANGED logs
Error     == Delivers("error")     /\ onError     /\ UNCHANGED logs

Message ==
    /\ Delivers("message")
    /\ nMsg < MaxMsgs
    /\ \E p \in Payloads, t \in Times : onMessage(p, t)
    /\ UNCHANGED logs

Unmount == cleanup /\ UNCHANGED logs

Next ==
    \/ Connect
    \/ Reconnect
    \/ Close
    \/ Offline
    \/ Error
    \/ Message
    \/ Unmount

Spec == Init /\ [][Next]_vars

\* ---------------------------------------------------------------- observed runs

\* A run watched from the outside: every lifecycle event delivered and every
\* value handed to setStatus is written down, for MaxEvents events.
Logged(e) ==
    /\ Len(evLog) < MaxEvents
    /\ evLog' = Append(evLog, e)
    /\ statusLog' = Append(statusLog, status')

ObsConnect   == Delivers("connect")   /\ onConnect   /\ Logged("connect")
ObsReconnect == Delivers("reconnect") /\ onReconnect /\ Logged("reconnect")
ObsClose     == Delivers("close")     /\ onClose     /\ Logged("close")
ObsOffline   == Delivers("offline")   /\ onOffline   /\ Logged("offline")
ObsError     == Delivers("error")     /\ onError     /\ Logged("error")

ObsNext ==
    \/ ObsConnect
    \/ ObsReconnect
    \/ ObsClose
    \/ ObsOffline
    \/ ObsError

ObsSpec == Init /\ [][ObsNext]_vars

\* ---------------------------------------------------------------- properties

AccelFields == {<<"ax", "ax_mg">>, <<"ay", "ay_mg">>, <<"az", "az_mg">>}
GyroFields  == {<<"gx", "gx_cds">>, <<"gy", "gy_cds">>, <<"gz", "gz_cds">>}

\* the message carries a value for one of the fields F names
Carries(p, F) ==
    /\ p.json = "object"
    /\ \E f \in F : ~Nullish(Get(p, f[1])) \/ ~Nullish(Get(p, f[2]))

\* v is what the fallback rule asks of the fields scaled and raw of p: the
\* scaled value, else the raw value over c (as a fraction, by cross
\* multiplication), else null
Normalized(p, scaled, raw, c, v) ==
    IF ~Nullish(Get(p, scaled)) THEN v = Get(p, scaled)
    ELSE IF ~Nullish(Get(p, raw))
         THEN /\ v.k = "num"
              /\ v.n * Get(p, raw).d * c = Get(p, raw).n * v.d
         ELSE v = Null

\* this step is the message handler run on a payload
MessageStep == last'.ev = "message" /\ nMsg' = nMsg + 1

\* new is old with one sample put at its end, the oldest one dropped at the cap
AppendedTo(old, new) ==
    /\ new # << >>
    /\ new = IF Len(old) < MAX_POINTS
             THEN Append(old, new[Len(new)])
             ELSE Append(Tail(old), new[Len(new)])

\* C1: in every reachable state the accel buffer and the gyro buffer each hold
\* at most MAX_POINTS samples.
C1_BuffersBounded == Len(accel) <= MAX_POINTS /\ Len(gyro) <= MAX_POINTS

\* both windows are full and the accel window has evicted
C1_Witness ==
    /\ Len(accel) = MAX_POINTS
    /\ Len(gyro) = MAX_POINTS
    /\ Len(accelLog) > MAX_POINTS

\* C2: the accel buffer is the most recent samples handed to it, at most
\* MAX_POINTS of them, in arrival order; after more than MAX_POINTS of them
\* its length is exactly MAX_POINTS.
C2_SlidingWindow ==
    LET n == Len(accelLog)
        k == IF n > MAX_POINTS THEN MAX_POINTS ELSE n
    IN  /\ Len(accel) = k
        /\ \A i \in 1..k : accel[i] = accelLog[n - k + i]

\* more than MAX_POINTS samples arrived, and the evicted one differs from the
\* ones kept, as the kept ones do from each other
C2_Witness ==
    /\ Len(accelLog) > MAX_POINTS
    /\ accelLog[1] # accel[1]
    /\ accel[1] # accel[MAX_POINTS]

\* C3: after teardown no message or lifecycle event delivered by the client
\* changes status, the accel buffer or the gyro buffer.
C3_QuietAfterTeardown ==
    [][ended => status' = status /\ accel' = accel /\ gyro' = gyro]_vars

\* C4: a malformed or non-object payload is discarded: neither buffer nor
\* status changes and no exception leaves the handler.
C4_DiscardsNonObjects ==
    [][MessageStep /\ last'.payload \in {BadJson} \cup NonObjects
         => /\ accel' = accel
            /\ gyro' = gyro
            /\ status' = status
            /\ ~last'.threw]_vars

\* C5 as stated: a message carrying an accel value makes the accel buffer one
\* longer in every state, the cap included, and the last sample holds the
\* normalized values.
C5_AlwaysOneLonger ==
    [][MessageStep /\ Carries(last'.payload, AccelFields)
         => /\ Len(accel') = Len(accel) + 1
            /\ \A f \in AccelFields :
                 LET v == accel'[Len(accel')][f[1]]
                 IN  v # Null => Normalized(last'.payload, f[1], f[2], 1000, v)]_vars

\* C5 amended: a message carrying an accel value puts exactly one sample at the
\* end of the accel buffer; the buffer is one longer below the cap and stays at
\* MAX_POINTS at the cap; the non-null fields of the last sample are the
\* normalized values of the message.
C5_OneSampleAppended ==
    [][MessageStep /\ Carries(last'.payload, AccelFields)
         => /\ AppendedTo(accel, accel')
            /\ Len(accel') = IF Len(accel) < MAX_POINTS
                             THEN Len(accel) + 1 ELSE MAX_POINTS
            /\ accel'[Len(accel')].t \in Times
            /\ \A f \in AccelFields :
                 LET v == accel'[Len(accel')][f[1]]
                 IN  v # Null => Normalized(last'.payload, f[1], f[2], 1000, v)]_vars

\* a message carrying an accel value was handled with the window already full
C5_Witness ==
    /\ last.ev = "message"
    /\ Carries(last.payload, AccelFields)
    /\ Len(accelLog) > MAX_POINTS
    /\ accel[MAX_POINTS].ax # Null

\* C6: one parsed message appends to the accel buffer exactly when one of its
\* accel fields resolves to a value, and to the gyro buffer exactly when one of
\* its gyro fields does, each decided on its own; no stored sample has all
\* three axes null.
C6_Step ==
    MessageStep /\ ~ParseThrows(last'.payload) /\ ~ReadThrows(last'.payload)
      => /\ IF Carries(last'.payload, AccelFields)
            THEN AppendedTo(accel, accel') ELSE accel' = accel
         /\ IF Carries(last'.payload, GyroFields)
            THEN AppendedTo(gyro, gyro') ELSE gyro' = gyro

C6_Stored ==
    /\ \A i \in 1..Len(accel) :
         accel[i].ax # Null \/ accel[i].ay # Null \/ accel[i].az # Null
    /\ \A i \in 1..Len(gyro) :
         gyro[i].gx # Null \/ gyro[i].gy # Null \/ gyro[i].gz # Null

C6_Routing == [][C6_Step]_vars /\ []C6_Stored

\* a gyro-only message went to the gyro buffer alone
C6_Witness ==
    /\ last.ev = "message"
    /\ last.payload = GyroOnly
    /\ accel = << >>
    /\ Len(gyro) = 1

\* C7: each decoded field is the scaled field when that has a value, else the
\* raw field over its scale (1000 for *_mg, 100 for *_cds), else null; and
\* {ax_mg: 981, gy_cds: 50} gives ax = 981/1000, gy = 50/100, the rest null,
\* in both buffers.
C7_Fallback ==
    last.ev = "message" /\ last.payload.json = "object"
      => /\ Carries(last.payload, AccelFields)
              => /\ accel # << >>
                 /\ \A f \in AccelFields :
                      Normalized(last.payload, f[1], f[2], 1000,
                                 accel[Len(accel)][f[1]])
         /\ Carries(last.payload, GyroFields)
              => /\ gyro # << >>
                 /\ \A f \in GyroFields :
                      Normalized(last.payload, f[1], f[2], 100,
                                 gyro[Len(gyro)][f[1]])
         /\ last.payload = RawBoth
              => /\ accel # << >> /\ gyro # << >>
                 /\ LET a == accel[Len(accel)]
                        g == gyro[Len(gyro)]
                    IN  /\ a.ax = [k |-> "num", n |-> 981, d |-> 1000]
                        /\ a.ay = Null /\ a.az = Null
                        /\ g.gy = [k |-> "num", n |-> 1, d |-> 2]
                        /\ g.gx = Null /\ g.gz = Null

\* the message that holds both a scaled and a raw ax was decoded
C7_Witness ==
    /\ last.ev = "message"
    /\ last.payload = ScaledWins
    /\ accel # << >>

\* C8: from a fresh mount the events connect, reconnect, close give the status
\* sequence connecting, connected, reconnecting, closed, one status per event.
C8_StatusSequence ==
    /\ Len(statusLog) = Len(evLog) + 1
    /\ \A n \in 0..3 :
         (Len(evLog) >= n /\ SubSeq(evLog, 1, n) = SubSeq(<<"connect", "reconnect", "close">>, 1, n))
           => SubSeq(statusLog, 1, n + 1)
                = SubSeq(<<"connecting", "connected", "reconnecting", "closed">>, 1, n + 1)

C8_Witness == evLog = <<"connect", "reconnect", "close">>

\* C9 as stated: an error event sets status to error from any status, and once
\* status is error only a connect event changes it.
C9_ErrorSticks ==
    [][/\ last'.ev = "error" => status' = "error"
       /\ (status = "error" /\ last'.ev # "connect") => status' = "error"]_vars

\* C9 amended: an error event sets status to error from any status; from error
\* no event other than connect makes status connected, a message event leaves
\* it error, and reconnect, close and offline set the status named for them.
C9_ErrorNeedsConnect ==
    [][/\ last'.ev = "error" => status' = "error"
       /\ (status = "error" /\ last'.ev # "connect") => status' # "connected"
       /\ (status = "error" /\ MessageStep) => status' = "error"
       /\ (status = "error" /\ last'.ev = "reconnect") => status' = "reconnecting"
       /\ (status = "error" /\ last'.ev = "close") => status' = "closed"
       /\ (status = "error" /\ last'.ev = "offline") => status' = "offline"]_vars

\* status is error and a message was handled since
C9_Witness == status = "error" /\ last.ev = "message" /\ accel # << >>

\* C10: a message event leaves status unchanged, a lifecycle event leaves both
\* buffers unchanged, and no event sets status back to connecting.
C10_DisjointEffects ==
    [][/\ MessageStep => status' = status
       /\ last'.ev \in LifecycleEvents => accel' = accel /\ gyro' = gyro
       /\ status # "connecting" => status' # "connecting"]_vars

\* an offline event arrived with samples in both buffers
C10_Witness ==
    /\ last.ev = "offline"
    /\ accel # << >>
    /\ gyro # << >>

====
